---- MODULE Spec2Model ----
(***************************************************************************)
(* Model of RecursiveWebCrawler (src/Sitemap.py): the breadth-first crawl  *)
(* of crawl_recursive, the per-URL tasks process_url / fetch_url /         *)
(* extract_urls run by asyncio.gather, the semaphore, and save_progress.   *)
(*                                                                         *)
(* A URL is a Python str, modelled as a sequence of one-character strings. *)
(* The web is an input: Init picks one of the Sites, which gives for every *)
(* page the set of absolute URLs that BeautifulSoup + urljoin produce from *)
(* its anchors. The outcome of each HTTP request is chosen when the        *)
(* request completes.                                                      *)
(*                                                                         *)
(* A second specification, TextSpec, models the pairing loop of            *)
(* get_bilingual_text (src/TextCrawler.py) over every short page.          *)
(***************************************************************************)
EXTENDS Integers, Sequences, FiniteSets, TLC

\* ------------------------------------------------------------------ bounds
\* the per-batch cap MAX_URLS_PER_DEPTH is drawn from 1..MaxCap
MaxCap == 3

\* the size of the semaphore (20 in the source), scaled down so that a batch
\* can be larger than it
MAX_CONCURRENT_REQUESTS == 2

\* --------------------------------------------------------- program constants
MAX_DEPTH == 3

VALID_EXTENSIONS == { <<".", "h", "t", "m">>, <<".", "h", "t", "m", "l">>, <<>> }

\* ------------------------------------------------------------- str helpers
\* code points of the characters the URLs of the model use (str comparison)
Ord ==
  [c \in {".", "/", ":", "H", "M", "T", "a", "b", "c", "d", "e", "f", "h",
          "l", "m", "o", "p", "s", "t", "x", "y", "?", "#"} |->
     CASE c = "#" -> 35 [] c = "." -> 46 [] c = "/" -> 47 [] c = ":" -> 58
       [] c = "?" -> 63 [] c = "H" -> 72 [] c = "M" -> 77 [] c = "T" -> 84
       [] c = "a" -> 97 [] c = "b" -> 98 [] c = "c" -> 99 [] c = "d" -> 100
       [] c = "e" -> 101 [] c = "f" -> 102 [] c = "h" -> 104 [] c = "l" -> 108
       [] c = "m" -> 109 [] c = "o" -> 111 [] c = "p" -> 112 [] c = "s" -> 115
       [] c = "t" -> 116 [] c = "x" -> 120 [] c = "y" -> 121]

\* str.lower(), character by character
LowerChar(c) ==
  CASE c = "H" -> "h" [] c = "M" -> "m" [] c = "T" -> "t" [] OTHER -> c

Lower(s) == [i \in 1..Len(s) |-> LowerChar(s[i])]

\* s.startswith(p)
StartsWith(s, p) == Len(p) <= Len(s) /\ SubSeq(s, 1, Len(p)) = p

\* s < t for Python str: lexicographic by code point, a proper prefix first
StrLess(s, t) ==
  \E k \in 1..(Len(t)) :
     /\ \A i \in 1..(k - 1) : i <= Len(s) /\ s[i] = t[i]
     /\ \/ Len(s) = k - 1
        \/ Len(s) >= k /\ Ord[s[k]] < Ord[t[k]]

\* s.find(c): the least index of one of the characters cs, or 0
FindAny(s, cs) ==
  IF \E i \in 1..Len(s) : s[i] \in cs
    THEN CHOOSE i \in 1..Len(s) : s[i] \in cs /\ \A j \in 1..(i - 1) : s[j] \notin cs
    ELSE 0

\* s.rfind(c): the greatest index of c, or 0
RFind(s, c) ==
  IF \E i \in 1..Len(s) : s[i] = c
    THEN CHOOSE i \in 1..Len(s) : s[i] = c /\ \A j \in (i + 1)..Len(s) : s[j] # c
    ELSE 0

\* ------------------------------------------------------------ urllib.parse
\* urlsplit(url): scheme, netloc and path (the part up to '?' or '#')
UrlSplit(url) ==
  LET colon  == FindAny(url, {":"})
      \* a letter first, then letters, digits, '+', '-' or '.'
      hasSch == /\ colon > 1
                /\ url[1] # "."
                /\ \A i \in 1..(colon - 1) : url[i] \notin {"/", "?", "#"}
      scheme == IF hasSch THEN Lower(SubSeq(url, 1, colon - 1)) ELSE <<>>
      rest   == IF hasSch THEN SubSeq(url, colon + 1, Len(url)) ELSE url
      hasNet == StartsWith(rest, <<"/", "/">>)
      after  == IF hasNet THEN SubSeq(rest, 3, Len(rest)) ELSE rest
      netEnd == FindAny(after, {"/", "?", "#"})
      netloc == IF ~hasNet THEN <<>>
                ELSE IF netEnd = 0 THEN after ELSE SubSeq(after, 1, netEnd - 1)
      tail   == IF ~hasNet THEN rest
                ELSE IF netEnd = 0 THEN <<>> ELSE SubSeq(after, netEnd, Len(after))
      pEnd   == FindAny(tail, {"?", "#"})
      path   == IF pEnd = 0 THEN tail ELSE SubSeq(tail, 1, pEnd - 1)
  IN  [scheme |-> scheme, netloc |-> netloc, path |-> path]

\* "{0.scheme}://{0.netloc}".format(urlsplit(url))
get_host_name(url) ==
  UrlSplit(url).scheme \o <<":", "/", "/">> \o UrlSplit(url).netloc

\* os.path.splitext(p)[1]: from the last dot of the last component, unless that
\* component consists of leading dots only up to it
SplitExt(p) ==
  LET sepIndex == RFind(p, "/")
      dotIndex == RFind(p, ".")
  IN  IF dotIndex > sepIndex
           /\ \E k \in (sepIndex + 1)..(dotIndex - 1) : p[k] # "."
        THEN SubSeq(p, dotIndex, Len(p))
        ELSE <<>>

\* --------------------------------------------------------------- the URLs
start_url == <<"s", ":", "/", "/", "e">>
uA     == start_url \o <<"/", "a">>
uB     == start_url \o <<"/", "b", ".", "h", "t", "m">>
uC     == start_url \o <<"/", "c">>
uX     == start_url \o <<"/", "x">>
uY     == start_url \o <<"/", "y", ".", "h", "t", "m", "l">>
uUpper == start_url \o <<"/", "d", ".", "H", "T", "M">>
uPdf   == start_url \o <<"/", "p", ".", "p", "d", "f">>
uQuery == start_url \o <<"/", "p", ".", "p", "d", "f", "?", "a", ".", "h", "t", "m">>
uOther == <<"s", ":", "/", "/", "o", "/", "a">>
uSpoof == <<"s", ":", "/", "/", "e", "x", "/", "a">>
uScheme == <<"t", ":", "/", "/", "e", "/", "a">>

Urls == {start_url, uA, uB, uC, uX, uY, uUpper, uPdf, uQuery, uOther, uSpoof, uScheme}

\* self.host_name, set once in __init__
host_name == get_host_name(start_url)

\* a web: links[u] is the set {urljoin(u, href)} over the anchors of page u,
\* raises holds the pages with an href on which urljoin raises ValueError
Web(f, bad) == [links |-> [u \in Urls |-> IF u \in DOMAIN f THEN f[u] ELSE {}],
                raises |-> bad]

\* the scenarios of the spec: an off-site link, a rejected extension, a chain
\* that goes deeper than MAX_DEPTH, a link back to the seed
SiteChain ==
  Web((start_url :> {uA, uOther, uPdf}) @@ (uA :> {uC, start_url})
        @@ (uC :> {uY}) @@ (uY :> {uX}), {})

\* a wide level: three pages at depth 2, pages sharing links
SiteWide ==
  Web((start_url :> {uA, uB, uX}) @@ (uA :> {uX, uC}) @@ (uB :> {uC})
        @@ (uX :> {uY}), {})

\* a cycle, and hosts and schemes that resemble the seed's
SiteCycle ==
  Web((start_url :> {uA, uSpoof, uScheme}) @@ (uA :> {start_url, uA, uUpper, uQuery})
        @@ (uSpoof :> {uA, uOther}) @@ (uUpper :> {uA}), {})

\* a page whose anchors make extract_urls raise
SiteBadHref ==
  Web((start_url :> {uA, uB}) @@ (uB :> {uC}) @@ (uA :> {uX}), {uA})

\* three pages at depth 3 that all link to one more page
SiteDeep ==
  Web((start_url :> {uA}) @@ (uA :> {uB, uC, uX}) @@ (uB :> {uY}) @@ (uC :> {uY})
        @@ (uX :> {uY}) @@ (uY :> {uUpper}), {})

SiteNames == {"chain", "wide", "cycle", "badhref", "deep"}

Site(n) ==
  CASE n = "chain" -> SiteChain [] n = "wide" -> SiteWide
    [] n = "cycle" -> SiteCycle [] n = "badhref" -> SiteBadHref
    [] n = "deep" -> SiteDeep

\* ------------------------------------------------------- RecursiveWebCrawler
VARIABLES
  site,                \* the web being crawled (input)
  max_urls_per_depth,  \* MAX_URLS_PER_DEPTH (input: the claims quantify over it)
  visited_urls,        \* self.visited_urls
  semaphore,           \* free slots of self.semaphore
  url_queue,           \* the deque of crawl_recursive: entries (url, depth)
  depth,               \* the variable depth of crawl_recursive (last popped)
  tasks,               \* current_depth_urls with the state of each one's task
  pc,                  \* where crawl_recursive is
  file,                \* the lines of self.output_file, or NoFile
  pending,             \* save_progress: the sorted URLs still to be written
  fetch_count,         \* history: calls of fetch_url per URL
  fetched,             \* history: outcome of the fetch of each URL
  appended,            \* history: url_queue.append calls per URL
  checkpoints,         \* history: visited_urls at each completed save_progress
  last_save            \* history: how the latest save_progress ended

\* get_bilingual_text (src/TextCrawler.py)
VARIABLES
  paragraphs,          \* content_div.find_all("p"): what each paragraph holds
  text_pc,             \* where get_bilingual_text is
  range_next,          \* the next value of the iterator range(len(paragraphs) - 1)
  loop_i,              \* the loop variable i
  bilingual_pairs      \* the list bilingual_pairs

textVars == <<paragraphs, text_pc, range_next, loop_i, bilingual_pairs>>

vars == <<site, max_urls_per_depth, visited_urls, semaphore, url_queue, depth,
          tasks, pc, file, pending, fetch_count, fetched, appended, checkpoints,
          last_save, textVars>>

\* get_bilingual_text is not running
TextOff ==
  /\ paragraphs = <<>>
  /\ text_pc = "off"
  /\ range_next = 0
  /\ loop_i = 0
  /\ bilingual_pairs = <<>>

\* the output file does not exist yet
NoFile == <<"no file">>

\* what session.get / response.text() can do
Outcomes == {"200", "404", "timeout", "error"}

None == [kind |-> "None"]

\* should_process_url: lines 46-56
should_process_url(url) ==
  IF url = <<>> THEN FALSE
  ELSE IF ~StartsWith(url, host_name) THEN FALSE
  ELSE Lower(SplitExt(UrlSplit(url).path)) \in VALID_EXTENSIONS

\* fetch_url with a fault: the page text is returned whatever the status
fetch_url_AnyStatus(url, outcome) ==
  IF outcome \in {"200", "404"} THEN [kind |-> "str", page |-> url] ELSE None

\* fetch_url's return value: the page text on status 200, None otherwise. The
\* text is identified by the page it belongs to.
fetch_url(url, outcome) ==
  IF outcome = "200" THEN [kind |-> "str", page |-> url] ELSE None

\* the release with a fault: the slot is given back on the 200 path only
SlotsAfterFetch_LeakOnFailure(slots, outcome) ==
  IF outcome = "200" THEN slots + 1 ELSE slots

\* the semaphore after fetch_url has left "async with self.semaphore"
SlotsAfterFetch(slots, outcome) == slots + 1

\* extract_urls: lines 70-81
extract_urls(web, html_content, visited) ==
  {full_url \in web.links[html_content.page] :
      should_process_url(full_url) /\ full_url \notin visited}

\* the guard with a fault: the visited test is missing
ProcessUrlSkips_NoVisitedTest(url, d, visited) == d > MAX_DEPTH

\* the guard with a fault: the depth test is missing
ProcessUrlSkips_NoDepthTest(url, d, visited) == url \in visited

\* process_url, line 84: the guard that returns set() at once
ProcessUrlSkips(url, d, visited) == d > MAX_DEPTH \/ url \in visited

\* the marking with a fault: the URL is not recorded
MarkVisited_Forgotten(visited, url) == visited

\* process_url, line 87
MarkVisited(visited, url) == visited \cup {url}

\* the test with a fault: off by one
BatchHasRoom_OffByOne(n, cap) == n <= cap

\* the inner loop's test on the batch size, line 105
BatchHasRoom(n, cap) == n < cap

\* lines 105-108: pop (url, depth) pairs while the batch has room; skip visited
RECURSIVE Collect(_, _, _, _, _)
Collect(q, batch, d, cap, visited) ==
  IF q # <<>> /\ BatchHasRoom(Len(batch), cap)
    THEN LET e == Head(q)
         IN  Collect(Tail(q),
                     IF e.url \notin visited THEN Append(batch, e) ELSE batch,
                     e.depth, cap, visited)
    ELSE [queue |-> q, batch |-> batch, depth |-> d]

\* every order in which a Python set of str can be iterated
RECURSIVE Orders(_)
Orders(S) ==
  IF S = {} THEN {<<>>}
  ELSE UNION {{<<x>> \o o : o \in Orders(S \ {x})} : x \in S}

\* lines 118-121 for the results of tasks i..Len(ts): the sequences of entries
\* that may be appended (a set is iterated in any order). chain is history:
\* the length of the chain of links through which the entry was found.
RECURSIVE Merged(_, _, _, _)
Merged(ts, i, d, visited) ==
  IF i > Len(ts) THEN {<<>>}
  ELSE LET new == {u \in ts[i].result : u \notin visited}
           mine == {[k \in 1..Len(o) |->
                       [url |-> o[k], depth |-> d + 1, chain |-> ts[i].chain + 1]] :
                    o \in Orders(new)}
       IN  {m \o r : m \in mine, r \in Merged(ts, i + 1, d, visited)}

\* sorted(self.visited_urls), line 133
RECURSIVE Sorted(_)
Sorted(S) ==
  IF S = {} THEN <<>>
  ELSE LET least == CHOOSE x \in S : \A y \in S \ {x} : StrLess(x, y)
       IN  <<least>> \o Sorted(S \ {least})

\* the open with a fault: mode 'a', which keeps what the file holds
OpenForWriting_Append(old) == IF old = NoFile THEN <<>> ELSE old

\* open(self.output_file, 'w'), line 132
OpenForWriting(old) == <<>>

Init ==
  /\ site \in SiteNames
  /\ max_urls_per_depth \in 1..MaxCap
  /\ visited_urls = {}
  /\ semaphore = MAX_CONCURRENT_REQUESTS
  /\ url_queue = <<[url |-> start_url, depth |-> 1, chain |-> 1]>>
  /\ depth = 0
  /\ tasks = <<>>
  /\ pc = "loop"
  /\ file = NoFile
  /\ pending = <<>>
  /\ fetch_count = [u \in Urls |-> 0]
  /\ fetched = [u \in Urls |-> "no"]
  /\ appended = [u \in Urls |-> IF u = start_url THEN 1 ELSE 0]
  /\ checkpoints = {}
  /\ last_save = "none"
  /\ TextOff

\* line 101: the queue is empty, crawl_recursive returns
LoopExit ==
  /\ pc = "loop" /\ url_queue = <<>>
  /\ pc' = "done"
  /\ UNCHANGED <<textVars, site, max_urls_per_depth, visited_urls, semaphore, url_queue,
                 depth, tasks, file, pending, fetch_count, fetched, appended,
                 checkpoints, last_save>>

\* lines 102-115: collect a batch; "continue" when it is empty, else create the
\* tasks and wait in gather
CollectBatch ==
  /\ pc = "loop" /\ url_queue # <<>>
  /\ LET r == Collect(url_queue, <<>>, depth, max_urls_per_depth, visited_urls)
     IN  /\ url_queue' = r.queue
         /\ depth' = r.depth
         /\ tasks' = [i \in 1..Len(r.batch) |->
                        [url |-> r.batch[i].url, depth |-> r.batch[i].depth,
                         chain |-> r.batch[i].chain, st |-> "start", result |-> {}]]
         /\ pc' = IF r.batch = <<>> THEN "loop" ELSE "gather"
  /\ UNCHANGED <<textVars, site, max_urls_per_depth, visited_urls, semaphore, file, pending,
                 fetch_count, fetched, appended, checkpoints, last_save>>

\* The first step of task i, lines 84-90 and 60: the event loop starts the
\* tasks of gather in order, and each runs up to its first suspension, which is
\* the wait for a slot or, with a slot, the request.
StartTask(i) ==
  /\ pc = "gather" /\ tasks[i].st = "start"
  /\ \A j \in 1..(i - 1) : tasks[j].st # "start"
  /\ IF ProcessUrlSkips(tasks[i].url, tasks[i].depth, visited_urls)
       THEN /\ tasks' = [tasks EXCEPT ![i].st = "done"]
            /\ UNCHANGED <<visited_urls, semaphore, fetch_count>>
       ELSE /\ visited_urls' = MarkVisited(visited_urls, tasks[i].url)
            /\ fetch_count' = [fetch_count EXCEPT ![tasks[i].url] = @ + 1]
            /\ IF semaphore > 0
                 THEN /\ semaphore' = semaphore - 1
                      /\ tasks' = [tasks EXCEPT ![i].st = "get"]
                 ELSE /\ tasks' = [tasks EXCEPT ![i].st = "acquire"]
                      /\ UNCHANGED semaphore
  /\ UNCHANGED <<textVars, site, max_urls_per_depth, url_queue, depth, pc, file, pending,
                 fetched, appended, checkpoints, last_save>>

\* line 60: a task waiting for the semaphore gets a slot (waiters are served
\* first come, first served)
WakeTask(i) ==
  /\ pc = "gather" /\ tasks[i].st = "acquire"
  /\ semaphore > 0
  /\ \A j \in 1..(i - 1) : tasks[j].st # "acquire"
  /\ semaphore' = semaphore - 1
  /\ tasks' = [tasks EXCEPT ![i].st = "get"]
  /\ UNCHANGED <<textVars, site, max_urls_per_depth, visited_urls, url_queue, depth, pc,
                 file, pending, fetch_count, fetched, appended, checkpoints,
                 last_save>>

\* lines 61-68 and 91-94: the request of task i ends, the slot is released, and
\* the task runs to its end: no links on None, else extract_urls, which returns
\* the links or raises. No request ends before every task has been started.
FetchDone(i) ==
  /\ pc = "gather" /\ tasks[i].st = "get"
  /\ \A j \in 1..Len(tasks) : tasks[j].st # "start"
  /\ \E outcome \in Outcomes :
       LET html_content == fetch_url(tasks[i].url, outcome)
       IN  /\ semaphore' = SlotsAfterFetch(semaphore, outcome)
           /\ fetched' = [fetched EXCEPT ![tasks[i].url] =
                            IF outcome = "200" THEN "ok" ELSE "failed"]
           /\ tasks' =
                IF html_content = None
                  THEN [tasks EXCEPT ![i].st = "done"]
                ELSE IF html_content.page \in Site(site).raises
                  THEN [tasks EXCEPT ![i].st = "raised"]
                ELSE [tasks EXCEPT ![i].st = "done",
                                   ![i].result =
                                     extract_urls(Site(site), html_content, visited_urls)]
  /\ UNCHANGED <<textVars, site, max_urls_per_depth, visited_urls, url_queue, depth, pc,
                 file, pending, fetch_count, appended, checkpoints, last_save>>

\* line 115: gather re-raises the exception of a task; crawl_recursive has no
\* handler, so the crawl ends there
Abort ==
  /\ pc = "gather"
  /\ \E i \in 1..Len(tasks) : tasks[i].st = "raised"
  /\ pc' = "aborted"
  /\ UNCHANGED <<textVars, site, max_urls_per_depth, visited_urls, semaphore, url_queue,
                 depth, tasks, file, pending, fetch_count, fetched, appended,
                 checkpoints, last_save>>

\* the merge with a fault: appendleft, the new URLs go to the front of the deque
Merge_AppendLeft ==
  /\ pc = "gather"
  /\ \A i \in 1..Len(tasks) : tasks[i].st = "done"
  /\ \E new \in Merged(tasks, 1, depth, visited_urls) :
       /\ url_queue' = new \o url_queue
       /\ appended' = [u \in Urls |->
                         appended[u] + Cardinality({k \in 1..Len(new) : new[k].url = u})]
  /\ pc' = "save"
  /\ UNCHANGED <<textVars, site, max_urls_per_depth, visited_urls, semaphore, depth, tasks,
                 file, pending, fetch_count, fetched, checkpoints, last_save>>

\* lines 115-121: every task has returned; append the new URLs at depth + 1
Merge ==
  /\ pc = "gather"
  /\ \A i \in 1..Len(tasks) : tasks[i].st = "done"
  /\ \E new \in Merged(tasks, 1, depth, visited_urls) :
       /\ url_queue' = url_queue \o new
       /\ appended' = [u \in Urls |->
                         appended[u] + Cardinality({k \in 1..Len(new) : new[k].url = u})]
  /\ pc' = "save"
  /\ UNCHANGED <<textVars, site, max_urls_per_depth, visited_urls, semaphore, depth, tasks,
                 file, pending, fetch_count, fetched, checkpoints, last_save>>

\* save_progress, lines 131-133: the file is opened for writing
SaveOpen ==
  /\ pc = "save"
  /\ file' = OpenForWriting(file)
  /\ pending' = Sorted(visited_urls)
  /\ pc' = "write"
  /\ UNCHANGED <<textVars, site, max_urls_per_depth, visited_urls, semaphore, url_queue,
                 depth, tasks, fetch_count, fetched, appended, checkpoints,
                 last_save>>

\* line 134: one line is written
SaveWrite ==
  /\ pc = "write" /\ pending # <<>>
  /\ file' = Append(file, Head(pending))
  /\ pending' = Tail(pending)
  /\ UNCHANGED <<textVars, site, max_urls_per_depth, visited_urls, semaphore, url_queue,
                 depth, tasks, pc, fetch_count, fetched, appended, checkpoints,
                 last_save>>

\* the with block ends, save_progress returns, lines 126-127 log
SaveClose ==
  /\ pc = "write" /\ pending = <<>>
  /\ pc' = "loop"
  /\ checkpoints' = checkpoints \cup {visited_urls}
  /\ last_save' = "ok"
  /\ UNCHANGED <<textVars, site, max_urls_per_depth, visited_urls, semaphore, url_queue,
                 depth, tasks, file, pending, fetch_count, fetched, appended>>

\* the handler with a fault: the IOError is not caught and ends the crawl
SaveIOError_NotCaught ==
  /\ pc \in {"save", "write"}
  /\ pc' = "aborted"
  /\ pending' = <<>>
  /\ last_save' = "failed"
  /\ UNCHANGED <<textVars, site, max_urls_per_depth, visited_urls, semaphore, url_queue,
                 depth, tasks, file, fetch_count, fetched, appended, checkpoints>>

\* lines 135-136: makedirs, open or write raises IOError, which is logged
SaveIOError ==
  /\ pc \in {"save", "write"}
  /\ pc' = "loop"
  /\ pending' = <<>>
  /\ last_save' = "failed"
  /\ UNCHANGED <<textVars, site, max_urls_per_depth, visited_urls, semaphore, url_queue,
                 depth, tasks, file, fetch_count, fetched, appended, checkpoints>>

Next ==
  \/ LoopExit
  \/ CollectBatch
  \/ \E i \in 1..Len(tasks) : StartTask(i)
  \/ \E i \in 1..Len(tasks) : WakeTask(i)
  \/ \E i \in 1..Len(tasks) : FetchDone(i)
  \/ Abort
  \/ Merge
  \/ SaveOpen
  \/ SaveWrite
  \/ SaveClose
  \/ SaveIOError

Spec == Init /\ [][Next]_vars

\* ------------------------------------------------- get_bilingual_text
\* the longest page of the model, in paragraphs
MaxParagraphs == 4

\* What a paragraph holds: text that detect_language takes for Vietnamese,
\* for English, for neither (another language, or '' when detect raises), or
\* no text at all once stripped and cleaned. The text of paragraph k is
\* written k: texts of different paragraphs are told apart.
Kinds == {"vi", "en", "other", "empty"}

\* the crawler is not running
CrawlerOff ==
  /\ site = "chain"
  /\ max_urls_per_depth = 1
  /\ visited_urls = {}
  /\ semaphore = MAX_CONCURRENT_REQUESTS
  /\ url_queue = <<>>
  /\ depth = 0
  /\ tasks = <<>>
  /\ pc = "off"
  /\ file = NoFile
  /\ pending = <<>>
  /\ fetch_count = [u \in Urls |-> 0]
  /\ fetched = [u \in Urls |-> "no"]
  /\ appended = [u \in Urls |-> 0]
  /\ checkpoints = {}
  /\ last_save = "none"

crawlerVars == <<site, max_urls_per_depth, visited_urls, semaphore, url_queue,
                 depth, tasks, pc, file, pending, fetch_count, fetched, appended,
                 checkpoints, last_save>>

\* detect_language, lines 17-23
detect_language(kind) == IF kind \in {"vi", "en"} THEN kind ELSE ""

\* process_paragraph_pair(paragraphs[k1], paragraphs[k2]), lines 45-60: the
\* pair (Vietnamese text, English text), or <<>> for None
process_paragraph_pair(ps, k1, k2) ==
  IF ps[k1] = "empty" \/ ps[k2] = "empty" THEN <<>>
  ELSE LET lang1 == detect_language(ps[k1])
           lang2 == detect_language(ps[k2])
       IN  IF lang1 = "vi" /\ lang2 = "en" THEN <<k1, k2>>
           ELSE IF lang1 = "en" /\ lang2 = "vi" THEN <<k2, k1>>
           ELSE <<>>

\* "for i in range(...)", line 75: the value i gets at the start of an
\* iteration is the iterator's next value, whatever the body left in i
LoopIndex(iter, left) == iter

TextInit ==
  /\ CrawlerOff
  /\ paragraphs \in UNION {[1..n -> Kinds] : n \in 0..MaxParagraphs}
  /\ text_pc = "fetch"
  /\ range_next = 0
  /\ loop_i = 0
  /\ bilingual_pairs = <<>>

\* lines 66-73: the page is fetched and parsed; a RequestException or a page
\* without div.entry-content gives []
FetchPage ==
  /\ text_pc = "fetch"
  /\ \E outcome \in {"ok", "no div", "RequestException"} :
       text_pc' = IF outcome = "ok" THEN "loop" ELSE "done"
  /\ UNCHANGED <<crawlerVars, paragraphs, range_next, loop_i, bilingual_pairs>>

\* lines 75-79: one iteration of the loop (i counts from 0, paragraphs from 1)
LoopStep ==
  /\ text_pc = "loop"
  /\ range_next < Len(paragraphs) - 1
  /\ LET cur == LoopIndex(range_next, loop_i)
         result == process_paragraph_pair(paragraphs, cur + 1, cur + 2)
     IN  /\ bilingual_pairs' = IF result # <<>> THEN Append(bilingual_pairs, result)
                                ELSE bilingual_pairs
         /\ loop_i' = IF result # <<>> THEN cur + 1 ELSE cur
  /\ range_next' = range_next + 1
  /\ UNCHANGED <<crawlerVars, paragraphs, text_pc>>

\* line 81: the range is used up, return bilingual_pairs
LoopEnd ==
  /\ text_pc = "loop"
  /\ range_next >= Len(paragraphs) - 1
  /\ text_pc' = "done"
  /\ UNCHANGED <<crawlerVars, paragraphs, range_next, loop_i, bilingual_pairs>>

TextNext == FetchPage \/ LoopStep \/ LoopEnd

TextSpec == TextInit /\ [][TextNext]_vars

\* ----------------------------------------------------------------- claims
Range(s) == {s[i] : i \in 1..Len(s)}

TaskIds == 1..Len(tasks)

\* C1: fetch_url is called at most once per URL, and a URL added to
\* visited_urls is never removed, whatever the batches look like.
C1_FetchedAtMostOnce ==
  [][/\ visited_urls \subseteq visited_urls'
     /\ \A u \in Urls : fetch_count'[u] <= 1]_vars

\* a URL sat twice in one batch: one task fetched it, the other returned at once
C1_Witness ==
  \E i, j \in TaskIds :
     /\ i < j /\ tasks[i].url = tasks[j].url
     /\ tasks[i].st = "done" /\ tasks[j].st = "done"
     /\ fetched[tasks[i].url] = "ok"
     /\ fetch_count[tasks[i].url] = 1

\* the pages that link to u and were fetched with status 200
LinkingPages(u) ==
  {p \in Urls : fetched[p] = "ok" /\ u \in Site(site).links[p]}

\* C2 as stated: over the whole crawl at most one entry of a URL is appended to
\* the frontier queue.
C2_AppendedAtMostOnce == \A u \in Urls : appended[u] <= 1

\* C2 as amended: a URL is appended at most once for each fetched page that
\* links to it (the seed once more, at the start), and never once it is in
\* visited_urls.
C2_AppendedOncePerLinkingPage ==
  [][/\ \A u \in Urls :
          appended'[u] <= Cardinality(LinkingPages(u)') + (IF u = start_url THEN 1 ELSE 0)
     /\ \A u \in Urls : appended'[u] # appended[u] => u \notin visited_urls']_vars

\* two entries of one unvisited URL wait in the queue
C2_Witness ==
  \E i, j \in 1..Len(url_queue) :
     /\ i < j /\ url_queue[i].url = url_queue[j].url
     /\ url_queue[i].url \notin visited_urls
     /\ appended[url_queue[i].url] = 2

\* C3: every URL handed to fetch_url has a depth label <= MAX_DEPTH, and the
\* chain of links through which it was found is no longer than MAX_DEPTH.
C3_FetchDepthBounded ==
  \A i \in TaskIds :
     tasks[i].st \in {"acquire", "get", "raised"} =>
        tasks[i].depth <= MAX_DEPTH /\ tasks[i].chain <= MAX_DEPTH

\* an entry of depth MAX_DEPTH + 1 came up in a batch and was not fetched
C3_Witness ==
  \E i \in TaskIds :
     /\ tasks[i].depth = MAX_DEPTH + 1 /\ tasks[i].st = "done"
     /\ fetch_count[tasks[i].url] = 0
     /\ \E p \in Urls : fetched[p] = "ok" /\ fetch_count[p] = 1

\* the URLs within k pages of the seed through pages fetched with status 200
RECURSIVE Within(_)
Within(k) ==
  IF k <= 1 THEN {start_url}
  ELSE Within(k - 1) \cup
       {u \in Urls : should_process_url(u) /\ \E p \in Within(k - 1) : p \in LinkingPages(u)}

\* C4: when the crawl ends, visited_urls holds every URL that passes
\* should_process_url and lies within MAX_DEPTH pages of the seed, for every
\* per-batch cap.
C4_AllWithinDepthVisited ==
  pc = "done" => Within(MAX_DEPTH) \subseteq visited_urls

\* the lines of the output file
Lines == IF file = NoFile THEN {} ELSE Range(file)

\* C5: a failed fetch leaves the URL visited and in the file, yields no links,
\* raises nothing, and the rest of its batch is fetched and merged as usual.
C5_FetchFailureIsolated ==
  /\ \A u \in Urls : fetched[u] = "failed" => u \in visited_urls
  /\ \A i \in TaskIds :
        fetched[tasks[i].url] = "failed" =>
           tasks[i].st # "raised" /\ tasks[i].result = {}
  /\ pc \in {"loop", "done"} /\ last_save = "ok" =>
        \A u \in Urls : fetched[u] = "failed" => u \in Lines
  /\ pc \in {"save", "write"} =>
        \A i \in TaskIds :
           /\ tasks[i].depth <= MAX_DEPTH => fetched[tasks[i].url] # "no"
           /\ \A u \in tasks[i].result \ visited_urls :
                 \E k \in 1..Len(url_queue) :
                    url_queue[k].url = u /\ url_queue[k].depth = depth + 1

\* a batch in which one fetch failed and another page's links were enqueued
C5_Witness ==
  /\ pc = "save"
  /\ \E i, j \in TaskIds :
        /\ fetched[tasks[i].url] = "failed" /\ tasks[i].url \in visited_urls
        /\ fetched[tasks[j].url] = "ok" /\ tasks[j].result \ visited_urls # {}

\* C6: after a save_progress that raised nothing the file holds exactly the
\* URLs of visited_urls, each once, in sorted order; while it runs no task is
\* running and visited_urls does not change.
C6_CheckpointIsVisitedSorted ==
  /\ pc \in {"loop", "done"} /\ last_save = "ok" =>
        /\ file # NoFile
        /\ Range(file) = visited_urls
        /\ \A i, j \in 1..Len(file) : i < j => StrLess(file[i], file[j])
  /\ pc \in {"save", "write"} => \A i \in TaskIds : tasks[i].st = "done"
  /\ pc = "write" => Range(file) \cup Range(pending) = visited_urls

\* the second or a later checkpoint has been written
C6_Witness ==
  /\ pc = "loop" /\ last_save = "ok"
  /\ Cardinality(checkpoints) >= 2
  /\ Len(file) >= 3

\* C7: from the first checkpoint on, the file always holds the full sorted
\* visited_urls of some completed checkpoint.
C7_FileAlwaysSnapshot ==
  checkpoints # {} => \E S \in checkpoints : file = Sorted(S)

\* the requests in flight: tasks inside session.get
InFlight == {i \in TaskIds : tasks[i].st = "get"}

\* C8: at most MAX_CONCURRENT_REQUESTS fetches hold a slot, every slot taken is
\* given back on every exit path, and after the barrier all slots are free.
C8_SlotsBoundedAndReleased ==
  /\ Cardinality(InFlight) <= MAX_CONCURRENT_REQUESTS
  /\ semaphore + Cardinality(InFlight) = MAX_CONCURRENT_REQUESTS
  /\ pc \in {"loop", "save", "write", "done"} => semaphore = MAX_CONCURRENT_REQUESTS

\* a batch larger than the semaphore is past its barrier, with a failed and a
\* successful fetch in it
C8_Witness ==
  /\ pc = "save" /\ semaphore = MAX_CONCURRENT_REQUESTS
  /\ Len(tasks) > MAX_CONCURRENT_REQUESTS
  /\ \E i, j \in TaskIds :
        fetched[tasks[i].url] = "failed" /\ fetched[tasks[j].url] = "ok"

\* q is what is left of p after some entries were popped from its front
IsSuffix(q, p) ==
  Len(q) <= Len(p) /\ q = SubSeq(p, Len(p) - Len(q) + 1, Len(p))

\* C9: a batch never has more than MAX_URLS_PER_DEPTH entries; the entries
\* beyond the cap stay in the queue, in order, with their depth.
C9_BatchWithinCap ==
  [][pc = "loop" /\ pc' # "done" =>
        /\ Len(tasks') <= max_urls_per_depth
        /\ IsSuffix(url_queue', url_queue)
        /\ Len(tasks') < max_urls_per_depth => url_queue' = <<>>]_vars

\* a full batch is running and unvisited entries of its depth are still queued
C9_Witness ==
  /\ pc = "gather"
  /\ Len(tasks) = max_urls_per_depth
  /\ \E k \in 1..Len(url_queue) :
        /\ url_queue[k].url \notin visited_urls
        /\ url_queue[k].depth = tasks[1].depth
        /\ \A i \in TaskIds : tasks[i].url # url_queue[k].url

\* the URLs should_process_url has been applied to: the links of fetched pages
Candidates == UNION {Site(site).links[p] : p \in {q \in Urls : fetched[q] = "ok"}}

\* C10: should_process_url rejects every URL whose scheme and authority differ
\* from the seed's and accepts only URLs of the seed's scheme and authority
\* with an accepted extension, so every visited URL but the seed has them.
C10_SameAuthorityOnly ==
  /\ \A u \in Candidates :
        /\ get_host_name(u) # host_name => ~should_process_url(u)
        /\ should_process_url(u) =>
              /\ get_host_name(u) = host_name
              /\ Lower(SplitExt(UrlSplit(u).path)) \in VALID_EXTENSIONS
  /\ \A u \in visited_urls \ {start_url} : get_host_name(u) = host_name

\* C11: the crawl ends, and it ends exactly when the frontier queue is empty
\* (never by another way out of crawl_recursive).
C11_EndsOnlyWithEmptyQueue ==
  pc \in {"done", "aborted"} => pc = "done" /\ url_queue = <<>>

\* C12: every new URL found on a page processed at depth d is appended with
\* depth exactly d + 1.
C12_ChildrenOneDeeper ==
  [][pc = "gather" /\ pc' = "save" =>
        \A i \in TaskIds : \A u \in tasks[i].result \ visited_urls :
           \E k \in (Len(url_queue) + 1)..Len(url_queue') :
              url_queue'[k].url = u /\ url_queue'[k].depth = tasks[i].depth + 1]_vars

\* C13: all entries of a batch have the same depth.
C13_BatchOfOneDepth ==
  \A i, j \in TaskIds : tasks[i].depth = tasks[j].depth

\* C14: every pair popped from the queue has depth <= MAX_DEPTH + 1 (depth
\* holds the depth of the pair popped last, tasks the pairs popped into the
\* batch).
C14_PoppedDepthBounded ==
  /\ depth <= MAX_DEPTH + 1
  /\ \A i \in TaskIds : tasks[i].depth <= MAX_DEPTH + 1

\* C15: an exception raised in extract_urls for one page stays with that page:
\* no task ends by raising and the crawl is never ended by it.
C15_ExtractFailureContained ==
  /\ pc # "aborted"
  /\ \A i \in TaskIds : tasks[i].st # "raised"

\* task i leaves its first step on the way to fetch_url
Dispatched(i) ==
  tasks[i].st = "start" /\ tasks'[i].st \in {"get", "acquire"}

\* C16 as stated: while the tasks of a batch run, visited_urls and the queue
\* are left unchanged.
C16_TasksLeaveSharedStateAlone ==
  [][pc = "gather" /\ pc' = "gather" =>
        visited_urls' = visited_urls /\ url_queue' = url_queue]_vars

\* C16 as amended: the tasks never touch the queue; a task adds its own URL
\* to visited_urls in its first step, before any request of the batch has
\* ended, and no other step of a task changes visited_urls.
C16_TasksOnlyMarkAtStart ==
  [][pc = "gather" /\ pc' = "gather" =>
        /\ url_queue' = url_queue
        /\ \A i \in TaskIds :
              Dispatched(i) =>
                 /\ tasks[i].url \notin visited_urls
                 /\ visited_urls' = visited_urls \cup {tasks[i].url}
                 /\ \A j \in TaskIds : tasks[j].result = {} /\ tasks[j].st # "raised"
        /\ (\A i \in TaskIds : ~Dispatched(i)) => visited_urls' = visited_urls]_vars

\* a task has added its URL to visited_urls while another one's request runs
C16_Witness ==
  \E i, j \in TaskIds :
     /\ i < j /\ tasks[i].st = "get" /\ tasks[j].st \in {"get", "acquire"}
     /\ tasks[j].url \in visited_urls

\* C17: an IOError in save_progress is swallowed: visited_urls and the queue
\* are unchanged, the crawl goes on with the loop, and the next save_progress
\* that succeeds writes the whole of visited_urls.
C17_SaveFailureSwallowed ==
  [][/\ pc \in {"save", "write"} =>
          /\ visited_urls' = visited_urls
          /\ url_queue' = url_queue
          /\ pc' \in {"write", "loop"}
     /\ pc = "write" /\ pc' = "loop" /\ last_save = "failed" /\ last_save' = "ok" =>
          /\ Range(file') = visited_urls'
          /\ Len(file') = Cardinality(visited_urls')]_vars

\* the first checkpoint failed and a later one has written the file
C17_Witness ==
  /\ pc = "loop" /\ last_save = "ok"
  /\ checkpoints # {} /\ {start_url} \notin checkpoints
  /\ start_url \in Lines /\ Lines = visited_urls

\* C18: processing an entry whose depth exceeds MAX_DEPTH changes nothing: no
\* fetch, no change of visited_urls, no links; a URL is in the file only if it
\* was handed to fetch_url (scenario: the page found on a page of depth
\* MAX_DEPTH is in the queue, not in the file).
C18_TooDeepEntryChangesNothing ==
  [][/\ pc = "gather" /\ pc' = "gather" =>
          \A i \in TaskIds :
             tasks[i].depth > MAX_DEPTH /\ tasks[i].st = "start" /\ tasks'[i].st # "start" =>
                /\ tasks'[i].st = "done" /\ tasks'[i].result = {}
                /\ UNCHANGED <<visited_urls, url_queue, fetch_count, fetched,
                               semaphore, file>>
     /\ \A u \in Lines' : fetch_count'[u] >= 1
     /\ pc' = "done" /\ site = "chain" =>
          uY \notin visited_urls' /\ uY \notin Lines']_vars

\* the crawl of the chain is over: the page of depth MAX_DEPTH is in the file,
\* the page it links to was queued and is not
C18_Witness ==
  /\ pc = "done" /\ site = "chain" /\ last_save = "ok"
  /\ appended[uY] > 0
  /\ uC \in Lines /\ uY \notin Lines

\* C20: the queue is ordered by non-decreasing depth and holds at most two
\* depth values, which are consecutive.
C20_QueueDepthsOrdered ==
  \A i, j \in 1..Len(url_queue) :
     i < j =>
        /\ url_queue[i].depth <= url_queue[j].depth
        /\ url_queue[j].depth <= url_queue[i].depth + 1

\* the queue holds entries of two depths
C20_Witness ==
  /\ Len(url_queue) >= 3
  /\ url_queue[Len(url_queue)].depth = url_queue[1].depth + 1

\* C19: after a pair was made of paragraphs i and i + 1, paragraph i + 1 does
\* not start the next candidate pair, so no paragraph is part of two pairs.
C19_NoParagraphInTwoPairs ==
  \A a, b \in 1..Len(bilingual_pairs) :
     a # b => Range(bilingual_pairs[a]) \cap Range(bilingual_pairs[b]) = {}

====
